---- MODULE Spec2Model ----
(***************************************************************************)
(* A state-machine model of lib/client/udp-tracker.js: one UDPTracker      *)
(* (the Session) and the Requests its announce/scrape calls create.  Each  *)
(* Request is the closure of one _request call: its socket, its timeout,   *)
(* its transactionId and its opts.  Every action below is one handler of   *)
(* the single-threaded event loop, run to completion.                      *)
(***************************************************************************)
EXTENDS Integers, Sequences, FiniteSets, TLC

(* ------------------------------ bounds --------------------------------- *)

\* how many Requests the Session creates over its life
MaxReq == 2

\* the values randombytes(4) is sampled from
TxIds == {1, 2}
\* the action codes a datagram may carry; 4 is an unknown action
ActionCodes == {0, 1, 2, 3, 4}
\* the lengths in bytes a datagram of each action code is sampled with: for
\* connect below and at the 16 bytes of a handshake; for announce below 20,
\* with no peer, with a 4-byte tail that is no peer list, and with two
\* peers; for scrape below 20, one record, 16 bytes that are no records,
\* two records and three records; for error without and with text
LensOf(a) ==
  CASE a = 0 -> {8, 16}
    [] a = 1 -> {16, 20, 24, 32}
    [] a = 2 -> {16, 20, 24, 32, 44}
    [] a = 3 -> {8, 16}
    [] OTHER -> {8}
\* the bodies a datagram of action code a and length len is sampled with:
\* body b holds the words b, 1 - b, b, ... from offset 8.  Both bodies are
\* sampled for a handshake (two connection ids) and for an announce reply
\* without peers (interval 0 and interval 1)
BodiesOf(a, len) ==
  IF (a = 0 /\ len = 16) \/ (a = 1 /\ len = 20) THEN {0, 1} ELSE {1}

Reqs == 1 .. MaxReq

(* ------------------------------ state ---------------------------------- *)

VARIABLES
  destroyed,            \* self.destroyed
  interval,             \* self.interval: the period in ms, 0 when cleared
  cleanupFns,           \* self.cleanupFns: the cleanup closures, by Request
  maybeDestroyCleanup,  \* self.maybeDestroyCleanup is installed (not null)
  destroyTimeout,       \* destroy's `timeout` is armed
  reqs,                 \* the closure state of every Request
  nreq,                 \* Requests created so far
  cbCalls,              \* how often destroyCleanup has invoked its cb
  step,                 \* the handler that ran last
  emitted,              \* the client events that handler emitted, in order
  sent,                 \* the datagrams that handler sent, in order
  called                \* the completion callbacks that handler invoked

vars == <<destroyed, interval, cleanupFns, maybeDestroyCleanup, destroyTimeout,
          reqs, nreq, cbCalls, step, emitted, sent, called>>

\* closure state of a _request call that has not been made
NoReq ==
  [socket |-> "none", timeout |-> FALSE, transactionId |-> 0,
   scrape |-> FALSE, event |-> "undefined", infoHash |-> << >>, opSent |-> FALSE]

\* closure state of a Request after its cleanup: the timer is cleared, the
\* listeners are removed and cleanupFns no longer holds its cleanup, so
\* nothing can reach its transactionId or opts any more
Closed == [NoReq EXCEPT !.socket = "closed"]

\* the opts an announce call is given (opts.event)
AnnounceOpts ==
  { [scrape |-> FALSE, event |-> e, infoHash |-> << >>] : e \in {"started", "stopped"} }

\* the opts a scrape call is given (opts.infoHash: a list of hashes);
\* scrape itself sets opts._scrape
ScrapeOpts ==
  { [scrape |-> FALSE, event |-> "undefined", infoHash |-> h] :
      h \in { <<"h1", "h2">> } }

\* Inbound datagrams.  A datagram is its length, the two header words
\* (action at offset 0, transaction id at offset 4) and a body whose 32-bit
\* words alternate b, 1 - b, b, ... from offset 8.  The header of a datagram
\* shorter than 8 bytes does not exist and takes one fixed value; the one
\* such datagram sampled is 4 bytes long.
Msgs ==
  { [len |-> 4, action |-> 0, tx |-> 1, b |-> 1] }
    \cup UNION { UNION { [len : {l}, action : {a}, tx : TxIds, b : BodiesOf(a, l)] :
                          l \in LensOf(a) } : a \in ActionCodes }

\* the current state as one record, for the handlers to transform
Cur ==
  [destroyed |-> destroyed, interval |-> interval, cleanupFns |-> cleanupFns,
   maybeDestroyCleanup |-> maybeDestroyCleanup, destroyTimeout |-> destroyTimeout,
   reqs |-> reqs, nreq |-> nreq, cbCalls |-> cbCalls,
   emitted |-> << >>, sent |-> << >>, called |-> << >>]

(* --------------------------- helper functions -------------------------- *)

\* Array.prototype.indexOf, 1-based; 0 stands for -1
indexOf(arr, x) ==
  IF \E i \in 1 .. Len(arr) : arr[i] = x
    THEN CHOOSE i \in 1 .. Len(arr) : arr[i] = x /\ \A j \in 1 .. (i - 1) : arr[j] # x
    ELSE 0

\* unordered-array-remove: the last element takes the removed one's place
arrayRemove(arr, i) ==
  IF i < 1 \/ i > Len(arr) THEN arr
  ELSE LET last == arr[Len(arr)]
           rest == SubSeq(arr, 1, Len(arr) - 1)
       IN  IF i < Len(arr) THEN [rest EXCEPT ![i] = last] ELSE rest

\* msg.readUInt32BE(off), for off a multiple of 4 inside the datagram
readUInt32BE(m, off) ==
  IF off = 0 THEN m.action
  ELSE IF off = 4 THEN m.tx
  ELSE ((off \div 4) + m.b) % 2

\* msg.slice(from, to) as the words it holds
slice(m, from, to) ==
  [i \in 1 .. ((to - from) \div 4) |-> readUInt32BE(m, from + 4 * (i - 1))]

\* buf.toString(): one character per word
toString(words) == [i \in DOMAIN words |-> IF words[i] = 0 THEN "a" ELSE "b"]

\* infoHash.toString('hex')
toHex(h) == <<"hex", h>>

emit(S, e) == [S EXCEPT !.emitted = Append(@, e)]

\* send: one datagram on the Request's socket
send(S, r, action, connectionId, tx) ==
  [S EXCEPT !.sent = Append(@, [r |-> r, action |-> action,
                                 connectionId |-> connectionId, tx |-> tx])]

\* Tracker.prototype.setInterval of the base class
setInterval(S, ms) == [S EXCEPT !.interval = ms]

openSockets(S) == { r \in Reqs : S.reqs[r].socket = "open" }

\* cb(null): `by` is the function that invokes it; the callback observes
\* how many sockets are open and how many Requests are active
callback(S, by) ==
  [S EXCEPT !.called = Append(@, [by |-> by, open |-> Cardinality(openSockets(S)),
                                   active |-> Len(S.cleanupFns)])]

(* ------------------------- cleanup and destroy ------------------------- *)

RECURSIVE cleanup(_, _)
RECURSIVE destroyCleanup(_)
RECURSIVE cleanupAll(_, _)

\* the forEach of destroyCleanup over the copy of cleanupFns
cleanupAll(S, fns) ==
  IF fns = << >> THEN S ELSE cleanupAll(cleanup(S, Head(fns)), Tail(fns))

\* destroyCleanup that leaves the grace-period timer armed
destroyCleanupKeepsTimer(S) ==
  LET S1 == [S EXCEPT !.maybeDestroyCleanup = FALSE]
      S2 == cleanupAll(S1, S1.cleanupFns)
      S3 == [S2 EXCEPT !.cleanupFns = << >>]
  IN  callback([S3 EXCEPT !.cbCalls = @ + 1], "destroyCleanup")

\* destroyCleanup that signals without cleaning up the Requests
destroyCleanupNoForce(S) ==
  LET S1 == [S EXCEPT !.destroyTimeout = FALSE, !.maybeDestroyCleanup = FALSE]
  IN  callback([S1 EXCEPT !.cbCalls = @ + 1], "destroyCleanup")

\* destroyCleanup of the destroy call that marked the Session destroyed
destroyCleanup(S) ==
  LET S1 == [S EXCEPT !.destroyTimeout = FALSE, !.maybeDestroyCleanup = FALSE]
      S2 == cleanupAll(S1, S1.cleanupFns)
      S3 == [S2 EXCEPT !.cleanupFns = << >>]
  IN  callback([S3 EXCEPT !.cbCalls = @ + 1], "destroyCleanup")

\* maybeDestroyCleanup without the check of line 65
runMaybeDestroyCleanupUnchecked(S) == destroyCleanup(S)

\* self.maybeDestroyCleanup()
runMaybeDestroyCleanup(S) ==
  IF Len(S.cleanupFns) = 0 THEN destroyCleanup(S) ELSE S

\* cleanup that removes the first cleanup function instead of its own
cleanupRemovesFirst(S, r) ==
  LET S1 == [S EXCEPT !.reqs[r].timeout = FALSE]
      S2 == IF S1.reqs[r].socket = "open"
              THEN [S1 EXCEPT
                      !.cleanupFns = arrayRemove(@, 1),
                      !.reqs[r].socket = "closed"]
              ELSE S1
  IN  IF S2.maybeDestroyCleanup THEN runMaybeDestroyCleanup(S2) ELSE S2

\* cleanup that closes the socket but leaves its entry in cleanupFns
cleanupKeepsEntry(S, r) ==
  LET S1 == [S EXCEPT !.reqs[r].timeout = FALSE]
      S2 == IF S1.reqs[r].socket = "open"
              THEN [S1 EXCEPT !.reqs[r].socket = "closed"]
              ELSE S1
  IN  IF S2.maybeDestroyCleanup THEN runMaybeDestroyCleanup(S2) ELSE S2

\* cleanup of Request r
cleanup(S, r) ==
  LET S1 == [S EXCEPT !.reqs[r].timeout = FALSE]
      S2 == IF S1.reqs[r].socket = "open"
              THEN [S1 EXCEPT
                      !.cleanupFns = arrayRemove(@, indexOf(@, r)),
                      !.reqs[r].socket = "closed"]
              ELSE S1
  IN  IF S2.maybeDestroyCleanup THEN runMaybeDestroyCleanup(S2) ELSE S2

\* onError that reports without cleaning up
onErrorNoCleanup(S, r, text) ==
  IF S.destroyed THEN S
  ELSE emit(S, [type |-> "warning", r |-> r, text |-> text])

\* onError of Request r
onError(S, r, text) ==
  LET S1 == cleanup(S, r)
  IN  IF S1.destroyed THEN S1
      ELSE emit(S1, [type |-> "warning", r |-> r, text |-> text])

\* destroy without the grace-period timer of line 60
destroyNoTimer(S) ==
  IF S.destroyed THEN callback(S, "destroy")
  ELSE LET S1 == [S EXCEPT !.destroyed = TRUE, !.interval = 0]
       IN  IF Len(S1.cleanupFns) = 0 THEN destroyCleanup(S1)
           ELSE [S1 EXCEPT !.maybeDestroyCleanup = TRUE]

\* destroy without the early completion of line 56
destroyAlwaysWaits(S) ==
  IF S.destroyed THEN callback(S, "destroy")
  ELSE [S EXCEPT !.destroyed = TRUE, !.interval = 0,
                 !.destroyTimeout = TRUE, !.maybeDestroyCleanup = TRUE]

\* destroy that forces the cleanup at once instead of waiting
destroyForcesAtOnce(S) ==
  IF S.destroyed THEN callback(S, "destroy")
  ELSE destroyCleanup([S EXCEPT !.destroyed = TRUE, !.interval = 0])

\* UDPTracker.prototype.destroy
destroy(S) ==
  IF S.destroyed THEN callback(S, "destroy")
  ELSE LET S1 == [S EXCEPT !.destroyed = TRUE, !.interval = 0]
       IN  IF Len(S1.cleanupFns) = 0 THEN destroyCleanup(S1)
           ELSE [S1 EXCEPT !.destroyTimeout = TRUE, !.maybeDestroyCleanup = TRUE]

(* ------------------------------ requests ------------------------------- *)

\* the magic connection id of a connect request
CONNECTION_ID == <<"0x417", "0x27101980">>

\* UDPTracker.prototype._request: the construction of Request S.nreq + 1
request(S, opts, tx) ==
  LET r  == S.nreq + 1
      S1 == [S EXCEPT
               !.nreq = r,
               !.reqs[r] = [socket |-> "open", timeout |-> TRUE, transactionId |-> tx,
                            scrape |-> opts.scrape, event |-> opts.event,
                            infoHash |-> opts.infoHash, opSent |-> FALSE],
               !.cleanupFns = Append(@, r)]
  IN  send(S1, r, 0, CONNECTION_ID, tx)

\* announce without the check of line 38
announceUnchecked(S, opts, tx) == request(S, opts, tx)

\* UDPTracker.prototype.announce
announce(S, opts, tx) == IF S.destroyed THEN S ELSE request(S, opts, tx)

\* UDPTracker.prototype.scrape
scrape(S, opts, tx) ==
  IF S.destroyed THEN S ELSE request(S, [opts EXCEPT !.scrape = TRUE], tx)

\* announce(connectionId, opts) inside _request
announceOp(S, r, connectionId, tx) ==
  LET S1 == [S EXCEPT !.reqs[r].transactionId = tx, !.reqs[r].opSent = TRUE]
  IN  send(S1, r, 1, connectionId, tx)

\* scrape(connectionId) inside _request
scrapeOp(S, r, connectionId, tx) ==
  LET S1 == [S EXCEPT !.reqs[r].transactionId = tx, !.reqs[r].opSent = TRUE]
  IN  send(S1, r, 2, connectionId, tx)

\* the timeout callback without the 'stopped' case of line 91
onTimeoutAlwaysWarns(S, r) ==
  LET S1 == onError(S, r, <<"tracker request timed out", S.reqs[r].event>>)
  IN  [S1 EXCEPT !.reqs[r].timeout = FALSE]

\* the timeout callback that ends nothing
onTimeoutNoCleanup(S, r) == [S EXCEPT !.reqs[r].timeout = FALSE]

\* the timeout callback of Request r
onTimeout(S, r) ==
  LET S1 == IF S.reqs[r].event = "stopped" THEN cleanup(S, r)
            ELSE onError(S, r, <<"tracker request timed out", S.reqs[r].event>>)
  IN  [S1 EXCEPT !.reqs[r].timeout = FALSE]

RECURSIVE emitPeers(_, _, _, _)
\* addrs.forEach: one peer event per 6-byte address
emitPeers(S, r, i, n) ==
  IF i >= n THEN S
  ELSE emitPeers(emit(S, [type |-> "peer", r |-> r, addr |-> i]), r, i + 1, n)

\* case 1 without the check of line 154
onAnnounceReplyUnchecked(S, r, m) ==
  LET S1 == cleanup(S, r)
  IN  IF m.len < 20 THEN onError(S1, r, <<"invalid announce message">>)
      ELSE LET iv == readUInt32BE(m, 8)
               S2 == IF iv # 0 THEN setInterval(S1, iv * 1000) ELSE S1
           IN  emit(S2, [type |-> "update", r |-> r,
                         complete |-> readUInt32BE(m, 16),
                         incomplete |-> readUInt32BE(m, 12)])

\* case 1 of onSocketMessage
onAnnounceReply(S, r, m) ==
  LET S1 == cleanup(S, r)
  IN  IF S1.destroyed THEN S1
      ELSE IF m.len < 20 THEN onError(S1, r, <<"invalid announce message">>)
      ELSE LET iv == readUInt32BE(m, 8)
               S2 == IF iv # 0 THEN setInterval(S1, iv * 1000) ELSE S1
               S3 == emit(S2, [type |-> "update", r |-> r,
                               complete |-> readUInt32BE(m, 16),
                               incomplete |-> readUInt32BE(m, 12)])
           IN  IF (m.len - 20) % 6 # 0
                 THEN emit(S3, [type |-> "warning", r |-> r,
                                text |-> <<"invalid compact peer list">>])
                 ELSE emitPeers(S3, r, 0, (m.len - 20) \div 6)

\* infoHashes[i] of case 2, i counted from 0
infoHashAt(opts, i) ==
  IF Len(opts.infoHash) > 0
    THEN IF i < Len(opts.infoHash) THEN toHex(opts.infoHash[i + 1]) ELSE <<"undefined">>
    ELSE IF i = 0 THEN <<"client.infoHash">> ELSE <<"undefined">>

RECURSIVE emitScrapes(_, _, _, _, _)
\* the for loop of case 2
emitScrapes(S, r, m, i, n) ==
  IF i >= n THEN S
  ELSE emitScrapes(
         emit(S, [type |-> "scrape", r |-> r, idx |-> i,
                  infoHash |-> infoHashAt(S.reqs[r], i),
                  complete |-> readUInt32BE(m, 8 + i * 12),
                  downloaded |-> readUInt32BE(m, 12 + i * 12),
                  incomplete |-> readUInt32BE(m, 16 + i * 12)]),
         r, m, i + 1, n)

\* case 2 of onSocketMessage
onScrapeReply(S, r, m) ==
  LET S1 == cleanup(S, r)
  IN  IF S1.destroyed THEN S1
      ELSE IF m.len < 20 \/ (m.len - 8) % 12 # 0
        THEN onError(S1, r, <<"invalid scrape message">>)
      ELSE emitScrapes(S1, r, m, 0, (m.len - 8) \div 12)

\* case 3 that reports a fixed text instead of the reply's text
onErrorReplyFixedText(S, r, m) == onError(S, r, <<"tracker error">>)

\* case 3 of onSocketMessage
onErrorReply(S, r, m) ==
  LET S1 == cleanup(S, r)
  IN  IF S1.destroyed THEN S1
      ELSE IF m.len < 8 THEN onError(S1, r, <<"invalid error message">>)
      ELSE emit(S1, [type |-> "warning", r |-> r, text |-> toString(slice(m, 8, m.len))])

\* case 0 without the length check of line 145
onConnectReplyUnchecked(S, r, m, tx) ==
  IF S.reqs[r].scrape THEN scrapeOp(S, r, slice(m, 8, 16), tx)
  ELSE announceOp(S, r, slice(m, 8, 16), tx)

\* case 0 of onSocketMessage
onConnectReply(S, r, m, tx) ==
  IF m.len < 16 THEN onError(S, r, <<"invalid udp handshake">>)
  ELSE IF S.reqs[r].scrape THEN scrapeOp(S, r, slice(m, 8, 16), tx)
  ELSE announceOp(S, r, slice(m, 8, 16), tx)

\* line 134 without the comparison of the transaction ids
validTransactionAnyId(S, r, m) == ~ (m.len < 8)

\* the check of line 134
validTransaction(S, r, m) ==
  ~ (m.len < 8 \/ readUInt32BE(m, 4) # S.reqs[r].transactionId)

\* onSocketMessage of Request r; tx is what genTransactionId would return
onSocketMessage(S, r, m, tx) ==
  IF ~ validTransaction(S, r, m)
    THEN onError(S, r, <<"tracker sent invalid transaction id">>)
  ELSE CASE readUInt32BE(m, 0) = 0 -> onConnectReply(S, r, m, tx)
         [] readUInt32BE(m, 0) = 1 -> onAnnounceReply(S, r, m)
         [] readUInt32BE(m, 0) = 2 -> onScrapeReply(S, r, m)
         [] readUInt32BE(m, 0) = 3 -> onErrorReply(S, r, m)
         [] OTHER -> onError(S, r, <<"tracker sent invalid action">>)

(* ------------------------------ actions -------------------------------- *)

\* the state after a handler: its result S, and what ran.  The actions bind
\* the handler's result with \E over a singleton, which evaluates it once.
Becomes(S, op, r) ==
  /\ destroyed' = S.destroyed
  /\ interval' = S.interval
  /\ cleanupFns' = S.cleanupFns
  /\ maybeDestroyCleanup' = S.maybeDestroyCleanup
  /\ destroyTimeout' = S.destroyTimeout
  /\ reqs' = [q \in Reqs |-> IF S.reqs[q].socket = "closed" THEN Closed ELSE S.reqs[q]]
  /\ nreq' = S.nreq
  /\ cbCalls' = S.cbCalls
  /\ emitted' = S.emitted
  /\ sent' = S.sent
  /\ called' = S.called
  /\ step' = [op |-> op, r |-> r]

Init ==
  /\ destroyed = FALSE
  /\ interval = 0
  /\ cleanupFns = << >>
  /\ maybeDestroyCleanup = FALSE
  /\ destroyTimeout = FALSE
  /\ reqs = [r \in Reqs |-> NoReq]
  /\ nreq = 0
  /\ cbCalls = 0
  /\ step = [op |-> "init", r |-> 0]
  /\ emitted = << >>
  /\ sent = << >>
  /\ called = << >>

\* a call of announce(opts); tx is what genTransactionId returns if called
Announce ==
  /\ nreq < MaxReq
  /\ \E opts \in AnnounceOpts :
       \E tx \in (IF destroyed THEN {0} ELSE TxIds) :
         \E T \in {announce(Cur, opts, tx)} : Becomes(T, "announce", 0)

\* a call of scrape(opts)
Scrape ==
  /\ nreq < MaxReq
  /\ \E opts \in ScrapeOpts :
       \E tx \in (IF destroyed THEN {0} ELSE TxIds) :
         \E T \in {scrape(Cur, opts, tx)} : Becomes(T, "scrape", 0)

\* a call of destroy(cb)
Destroy ==
  \E T \in {destroy(Cur)} : Becomes(T, "destroy", 0)

\* destroy's grace-period timer fires
DestroyTimeout ==
  /\ destroyTimeout
  /\ \E T \in {destroyCleanup(Cur)} : Becomes(T, "destroyTimeout", 0)

\* the request timeout of Request r fires
RequestTimeout(r) ==
  /\ reqs[r].timeout
  /\ \E T \in {onTimeout(Cur, r)} : Becomes(T, "timeout", r)

\* the socket of Request r emits 'error'
SocketError(r) ==
  /\ reqs[r].socket = "open"
  /\ \E T \in {onError(Cur, r, <<"socket error">>)} : Becomes(T, "error", r)

\* datagram m is delivered to the socket of Request r; tx is the value
\* genTransactionId returns if the handler calls it
Deliver(r, m, tx) ==
  /\ reqs[r].socket = "open"
  /\ \E T \in {onSocketMessage(Cur, r, m, tx)} : Becomes(T, "message", r)

\* whether onSocketMessage calls genTransactionId for m
regenerates(r, m) ==
  validTransaction(Cur, r, m) /\ readUInt32BE(m, 0) = 0 /\ m.len >= 16

\* the socket of Request r emits 'message'
SocketMessage(r) ==
  \E m \in Msgs :
    \E tx \in (IF regenerates(r, m) THEN TxIds ELSE {0}) : Deliver(r, m, tx)

Next ==
  \/ Announce
  \/ Scrape
  \/ Destroy
  \/ DestroyTimeout
  \/ \E r \in Reqs : RequestTimeout(r)
  \/ \E r \in Reqs : SocketError(r)
  \/ \E r \in Reqs : SocketMessage(r)

Spec == Init /\ [][Next]_vars

\* The runs in which no datagram, no socket error and no request timeout
\* ever arrives: only the caller and destroy's grace-period timer act.
QuietNext ==
  \/ Announce
  \/ Scrape
  \/ Destroy
  \/ DestroyTimeout

\* setTimeout(destroyCleanup, DESTROY_TIMEOUT): unless it is cleared, the
\* grace-period timer fires
QuietSpec == Init /\ [][QuietNext]_vars /\ WF_vars(DestroyTimeout)

\* setTimeout(..., REQUEST_TIMEOUT) of line 89: unless it is cleared, the
\* request timeout of every Request fires
FairSpec == Init /\ [][Next]_vars /\ \A r \in Reqs : WF_vars(RequestTimeout(r))

(* ------------------------------ claims --------------------------------- *)

\* the Requests in the active set
active == { cleanupFns[i] : i \in 1 .. Len(cleanupFns) }
isOpen(r) == reqs[r].socket = "open"
\* Request r has been cleaned up in the next state
cleanedUp(r) ==
  /\ reqs'[r].socket = "closed"
  /\ ~ reqs'[r].timeout
  /\ \A i \in 1 .. Len(cleanupFns') : cleanupFns'[i] # r
warnings(es, r) == { i \in 1 .. Len(es) : es[i].type = "warning" /\ es[i].r = r }

\* C1: in a run where nothing ever arrives for the Requests, a destroy
\* call made with Requests active is followed, eventually, by its completion
\* callback; the callback is invoked by the firing of the grace-period timer
\* (until then every active Request stays open and nothing is signalled),
\* and that firing closes every Request that was active, empties the active
\* set and signals once.
C1_DestroyCompletes ==
  /\ (destroyed /\ cleanupFns # << >>)
       ~> (cbCalls = 1 /\ cleanupFns = << >> /\ \A r \in Reqs : ~ isOpen(r))
  /\ [][ /\ (destroyed /\ cleanupFns # << >> /\ step'.op # "destroyTimeout")
             => (cbCalls' = 0 /\ cleanupFns' = cleanupFns
                 /\ \A r \in active : reqs'[r].socket = "open")
         /\ step'.op = "destroyTimeout"
             => /\ active # {}
                /\ \A r \in active : isOpen(r) /\ cleanedUp(r)
                /\ cleanupFns' = << >>
                /\ \A r \in Reqs : reqs'[r].socket # "open"
                /\ called' = << [by |-> "destroyCleanup", open |-> 0, active |-> 0] >>
                /\ cbCalls' = 1 ]_vars

C1_Witness ==
  /\ step.op = "destroyTimeout"
  /\ nreq = MaxReq
  /\ cbCalls = 1
  /\ called # << >>
  /\ \A r \in Reqs : reqs[r].socket = "closed"

\* C2: the completion callback of a destroy call is invoked exactly once.
\* The call that marks the Session destroyed signals at most once over the
\* whole run: while it has not signalled, the grace-period timer and
\* maybeDestroyCleanup are both pending; once it has, whether by the timer
\* or by the active set becoming empty, the timer is cancelled and
\* maybeDestroyCleanup is removed.  An empty active set on a destroyed
\* Session means it has signalled.  No handler signals twice.
C2_CallbackOnce ==
  /\ cbCalls <= 1
  /\ Len(called) <= 1
  /\ (cbCalls = 1 => destroyed /\ ~ destroyTimeout /\ ~ maybeDestroyCleanup)
  /\ (destroyed /\ cbCalls = 0 => destroyTimeout /\ maybeDestroyCleanup)
  /\ (destroyed /\ cleanupFns = << >> => cbCalls = 1)
  /\ (called # << >> /\ called[1].by = "destroyCleanup"
        => step.op \in {"destroy", "destroyTimeout", "timeout", "error", "message"})
  /\ (step.op = "destroy" /\ called = << >> => destroyTimeout /\ cbCalls = 0)

\* the active set became empty before the grace-period timer fired
C2_Witness ==
  /\ step.op \in {"timeout", "error", "message"}
  /\ called = << [by |-> "destroyCleanup", open |-> 0, active |-> 0] >>
  /\ cbCalls = 1
  /\ ~ destroyTimeout

\* C3: destroy on a not-yet-destroyed Session with an empty active set
\* invokes the completion callback inside the call, arms no grace-period
\* timer and leaves no maybeDestroyCleanup installed.
C3_SyncDestroy ==
  [][ (step'.op = "destroy" /\ ~ destroyed /\ cleanupFns = << >>)
        => /\ destroyed'
           /\ called' = << [by |-> "destroyCleanup", open |-> 0, active |-> 0] >>
           /\ cbCalls' = cbCalls + 1
           /\ ~ destroyTimeout'
           /\ ~ maybeDestroyCleanup' ]_vars

C3_Witness ==
  /\ step.op = "destroy"
  /\ called # << >>
  /\ called[1].by = "destroyCleanup"
  /\ nreq > 0

\* C4: on a destroyed Session announce and scrape create no Request, open
\* no socket, send no datagram and leave the active set unchanged; after
\* destroy the active set never grows.
C4_DestroyedNoNewRequests ==
  [][ destroyed
        => /\ nreq' = nreq
           /\ \A r \in Reqs : reqs'[r].socket = "open" => reqs[r].socket = "open"
           /\ \A i \in 1 .. Len(cleanupFns') : cleanupFns'[i] \in active
           /\ (step'.op \in {"announce", "scrape"}
                 => /\ sent' = << >>
                    /\ emitted' = << >>
                    /\ UNCHANGED <<reqs, cleanupFns, destroyed, interval,
                                   maybeDestroyCleanup, destroyTimeout, cbCalls>>) ]_vars

C4_Witness ==
  /\ destroyed
  /\ step.op \in {"announce", "scrape"}
  /\ cleanupFns # << >>

\* datagram m, delivered to Request r, is one of the failures of a reply
failureMsg(r, m) ==
  \/ m.len < 8
  \/ m.tx # reqs[r].transactionId
  \/ m.action = 0 /\ m.len < 16
  \/ m.action = 1 /\ (m.len < 20 \/ (m.len - 20) % 6 # 0)
  \/ m.action = 2 /\ (m.len < 20 \/ (m.len - 8) % 12 # 0)
  \/ m.action = 3
  \/ m.action \notin {0, 1, 2, 3}

\* the step is a failure of Request r: a timeout of an operation that is
\* not 'stopped', a socket error or a failing datagram
failureStep(r) ==
  /\ step'.r = r
  /\ \/ step'.op = "timeout" /\ reqs[r].event # "stopped"
     \/ step'.op = "error"
     \/ step'.op = "message" /\ \E m \in Msgs : failureMsg(r, m) /\ Deliver(r, m, 0)

\* C5 as stated: every failure path ends with the Request cleaned up and
\* exactly one warning event, in every state of the Session.
C5_FailureWarnsAlways ==
  [][ \A r \in Reqs :
        ~ (cleanedUp(r) /\ Cardinality(warnings(emitted', r)) = 1)
          => ~ failureStep(r) ]_vars

\* C5 amended: every failure path ends with the Request cleaned up; on a
\* Session that is not destroyed exactly one warning event is emitted for
\* it and no warning names another Request; on a destroyed Session no event
\* is emitted at all.  (Stated by contraposition: a step that does not end
\* so is no failure step.)
C5_FailureWarnsUnlessDestroyed ==
  [][ \A r \in Reqs :
        ~ ( /\ cleanedUp(r)
            /\ ~ destroyed
                 => /\ Cardinality(warnings(emitted', r)) = 1
                    /\ \A i \in 1 .. Len(emitted') : emitted'[i].r = r
            /\ destroyed => emitted' = << >> )
          => ~ failureStep(r) ]_vars

C5_Witness ==
  /\ step.op = "message"
  /\ ~ destroyed
  /\ reqs[step.r].socket = "closed"
  /\ emitted = << [type |-> "warning", r |-> step.r,
                   text |-> <<"invalid announce message">>] >>

\* C6: a timeout, socket error or datagram of one Request leaves every
\* other in-flight Request as it was (socket open, timeout armed, same
\* transaction id, same phase, still in the active set), emits nothing for
\* it, and leaves the destroyed flag as it was.
C6_OthersUnaffected ==
  [][ step'.op \in {"timeout", "error", "message"}
        => /\ destroyed' = destroyed
           /\ \A q \in Reqs \ {step'.r} :
                isOpen(q)
                  => /\ reqs'[q] = reqs[q]
                     /\ reqs'[q].timeout
                     /\ \E i \in 1 .. Len(cleanupFns') : cleanupFns'[i] = q
                     /\ \A i \in 1 .. Len(emitted') : emitted'[i].r # q ]_vars

C6_Witness ==
  /\ step.op \in {"timeout", "error", "message"}
  /\ reqs[step.r].socket = "closed"
  /\ destroyed
  /\ \E q \in Reqs : isOpen(q) /\ reqs[q].opSent

\* C7: when the request timeout fires the Request is cleaned up; for an
\* announce whose event is 'stopped' nothing is emitted; for any other
\* operation on a Session that is not destroyed the one event emitted is
\* the request-timed-out warning.
C7_TimeoutStopped ==
  [][ step'.op = "timeout"
        => /\ cleanedUp(step'.r)
           /\ (reqs[step'.r].event = "stopped" /\ ~ reqs[step'.r].scrape)
                => emitted' = << >>
           /\ (reqs[step'.r].event # "stopped" /\ ~ destroyed)
                => emitted' = << [type |-> "warning", r |-> step'.r,
                                  text |-> <<"tracker request timed out",
                                             reqs[step'.r].event>>] >> ]_vars

\* only the timeout of a 'stopped' announce is silent on a live Session
C7_Witness ==
  /\ step.op = "timeout"
  /\ ~ destroyed
  /\ emitted = << >>
  /\ reqs[step.r].socket = "closed"

\* datagram m is shorter than 8 bytes or carries another transaction id
\* than the current one of Request r
badDatagram(r, m) == m.len < 8 \/ m.tx # reqs[r].transactionId

\* the step is the delivery of such a datagram to Request r
badDelivery(r) ==
  /\ step'.op = "message"
  /\ step'.r = r
  /\ \E m \in Msgs : badDatagram(r, m) /\ Deliver(r, m, 0)

\* the step is the delivery to Request r of a datagram with its current id
validDelivery(r) ==
  /\ step'.op = "message"
  /\ step'.r = r
  /\ \E m \in Msgs, tx \in TxIds : ~ badDatagram(r, m) /\ Deliver(r, m, tx)

invalidTransactionWarning(r) ==
  [type |-> "warning", r |-> r, text |-> <<"tracker sent invalid transaction id">>]

\* C8 as stated: a datagram that is too short or carries another
\* transaction id cleans the Request up with an invalid-transaction warning
\* and is not dispatched.
C8_BadDatagramAbortsAndWarns ==
  [][ \A r \in Reqs :
        ~ ( /\ cleanedUp(r)
            /\ emitted' = << invalidTransactionWarning(r) >>
            /\ sent' = << >> )
          => ~ badDelivery(r) ]_vars

\* C8 amended: in either phase such a datagram cleans the Request up and
\* is not dispatched on its action code (nothing is sent, no result event
\* is emitted, the interval is not touched); the invalid-transaction
\* warning is the one event emitted, unless the Session is destroyed, in
\* which case nothing is emitted.  (Stated by contraposition.)
C8_BadDatagramAborts ==
  [][ \A r \in Reqs :
        ~ ( /\ cleanedUp(r)
            /\ emitted' = IF destroyed THEN << >> ELSE << invalidTransactionWarning(r) >>
            /\ sent' = << >>
            /\ interval' = interval )
          => ~ badDelivery(r) ]_vars

C8_Witness ==
  /\ step.op = "message"
  /\ reqs[step.r].socket = "closed"
  /\ emitted = << invalidTransactionWarning(step.r) >>

\* C9 as stated: once a Request has sent its operation message its
\* transaction id is not regenerated again and it sends no further
\* operation message, whatever datagram arrives.
C9_RegeneratedOnce ==
  [][ \A r \in Reqs :
        (isOpen(r) /\ reqs[r].opSent)
          => \A i \in 1 .. Len(sent') : sent'[i].r # r ]_vars

\* C10 as stated: two announce Requests in flight never hold the same
\* transaction id.
C10_DistinctIds ==
  \A r, q \in Reqs :
    (r # q /\ isOpen(r) /\ isOpen(q) /\ ~ reqs[r].scrape /\ ~ reqs[q].scrape)
      => reqs[r].transactionId # reqs[q].transactionId

\* C10 amended: an announce call on a live Session creates one new Request
\* with its own open socket, its own armed timeout and its own generated
\* transaction id (which may equal that of another Request), and leaves the
\* Requests in flight as they were; a reply that carries a Request's
\* current id and arrives on its socket resolves only that Request: every
\* other Request in flight stays as it was, in the active set, and no event
\* is emitted for it.  (The second part is stated by contraposition.)
C10_IndependentRequests ==
  [][ /\ (step'.op = "announce" /\ ~ destroyed)
          => /\ nreq' = nreq + 1
             /\ reqs'[nreq'].socket = "open"
             /\ reqs'[nreq'].timeout
             /\ reqs'[nreq'].transactionId \in TxIds
             /\ ~ reqs'[nreq'].opSent
             /\ cleanupFns' = Append(cleanupFns, nreq')
             /\ \A q \in 1 .. nreq : reqs'[q] = reqs[q]
      /\ \A r \in Reqs :
           ~ (\A q \in Reqs \ {r} :
                isOpen(q)
                  => /\ reqs'[q] = reqs[q]
                     /\ \E i \in 1 .. Len(cleanupFns') : cleanupFns'[i] = q
                     /\ \A i \in 1 .. Len(emitted') : emitted'[i].r # q)
             => ~ validDelivery(r) ]_vars

\* two announces in flight, one resolved by its reply, the other waiting
C10_Witness ==
  /\ step.op = "message"
  /\ reqs[step.r].socket = "closed"
  /\ emitted # << >>
  /\ emitted[1].type = "update"
  /\ \E q \in Reqs : isOpen(q) /\ ~ reqs[q].scrape /\ ~ reqs[q].opSent

\* the error replies: the datagrams with action code 3
ErrorReplies == { m \in Msgs : m.len >= 8 /\ m.action = 3 }

\* the warning event of case 3 for error reply m
errorReplyWarning(r, m) ==
  [type |-> "warning", r |-> r, text |-> toString(slice(m, 8, m.len))]

\* the step is the delivery to Request r of datagram m, which carries the
\* current transaction id of r
currentDelivery(r, m) ==
  /\ step'.op = "message"
  /\ step'.r = r
  /\ m.len >= 8
  /\ m.tx = reqs[r].transactionId
  /\ Deliver(r, m, 0)

\* C11 as stated: an error reply with the current transaction id cleans the
\* Request up and emits exactly one warning event with the reply's text.
C11_ErrorReplyWarns ==
  [][ \A r \in Reqs, m \in ErrorReplies :
        ~ ( /\ cleanedUp(r)
            /\ emitted' = << errorReplyWarning(r, m) >> )
          => ~ currentDelivery(r, m) ]_vars

\* C11 amended: an error reply with the current transaction id cleans the
\* Request up, sends nothing and leaves the interval alone; on a Session
\* that is not destroyed the one event emitted is a warning with the
\* reply's text, on a destroyed Session nothing is emitted; and once a
\* Request is cleaned up it stays so and no event is ever emitted for it
\* again.  (The first part is stated by contraposition.)
C11_ErrorReplyEnds ==
  [][ /\ \A r \in Reqs, m \in ErrorReplies :
           ~ ( /\ cleanedUp(r)
               /\ emitted' = IF destroyed THEN << >> ELSE << errorReplyWarning(r, m) >>
               /\ sent' = << >>
               /\ interval' = interval )
             => ~ currentDelivery(r, m)
      /\ \A r \in Reqs :
           reqs[r].socket = "closed"
             => /\ reqs'[r].socket = "closed"
                /\ \A i \in 1 .. Len(emitted') : emitted'[i].r # r ]_vars

\* an error reply with text has ended a Request of a live Session
C11_Witness ==
  /\ step.op = "message"
  /\ ~ destroyed
  /\ reqs[step.r].socket = "closed"
  /\ emitted = << [type |-> "warning", r |-> step.r, text |-> <<"b", "a">>] >>

\* the connect replies with a connection id, and those too short for one
ConnectReplies == { m \in Msgs : m.action = 0 /\ m.len >= 16 }
ShortConnectReplies == { m \in Msgs : m.action = 0 /\ m.len >= 8 /\ m.len < 16 }

\* C12: a datagram sent with the announce or scrape action code is the one
\* datagram of a handler that was delivered a connect reply of at least 16
\* bytes with the Request's current transaction id; it is sent by that
\* Request, has the action code of the Request's kind and carries the
\* connection id of the reply and the newly generated transaction id.  A
\* connect message is sent only by an announce or scrape call.  A connect
\* reply with the current id that is shorter than 16 bytes cleans the
\* Request up and nothing is sent (stated by contraposition).
C12_OperationAfterConnect ==
  [][ /\ \A i \in 1 .. Len(sent') :
           sent'[i].action # 0
             => /\ step'.op = "message"
                /\ sent'[i].r = step'.r
                /\ Len(sent') = 1
                /\ sent'[i].action = IF reqs[step'.r].scrape THEN 2 ELSE 1
                /\ reqs'[step'.r].opSent
                /\ reqs'[step'.r].transactionId = sent'[i].tx
                /\ \E m \in ConnectReplies :
                     /\ m.tx = reqs[step'.r].transactionId
                     /\ sent'[i].connectionId = slice(m, 8, 16)
                     /\ Deliver(step'.r, m, sent'[i].tx)
      /\ \A i \in 1 .. Len(sent') :
           sent'[i].action = 0
             => /\ step'.op \in {"announce", "scrape"}
                /\ sent'[i].connectionId = CONNECTION_ID
      /\ \A r \in Reqs, m \in ShortConnectReplies :
           ~ (cleanedUp(r) /\ sent' = << >>) => ~ currentDelivery(r, m) ]_vars

\* a scrape Request has sent its operation message with the connection id
\* of a connect reply of body 0
C12_Witness ==
  /\ step.op = "message"
  /\ Len(sent) = 1
  /\ sent[1].action = 2
  /\ sent[1].connectionId = <<0, 1>>
  /\ reqs[step.r].opSent

\* Request r is in flight and has been delivered no datagram: any datagram
\* but a handshake ends the Request, and a handshake sets opSent
untouched(r) == isOpen(r) /\ ~ reqs[r].opSent

\* Request r stays as it is: socket open, timeout armed, in the active set
stays(r) ==
  /\ reqs'[r] = reqs[r]
  /\ reqs'[r].timeout
  /\ \E i \in 1 .. Len(cleanupFns') : cleanupFns'[i] = r

\* C13 as stated: a Request that has been delivered no datagram stays in
\* the active set with its socket open through every step but its own
\* timeout, a datagram for it, and destroy's cleanup.
C13_LeavesByTimeoutOrDestroy ==
  [][ \A r \in Reqs :
        ( /\ untouched(r)
          /\ ~ (step'.op \in {"timeout", "message"} /\ step'.r = r)
          /\ step'.op # "destroyTimeout" )
          => stays(r) ]_vars

\* C13 amended: such a Request is in the active set with its socket open
\* and its timeout armed, and stays so through every step but its own
\* timeout, an error of its socket, a datagram for it, and destroy's
\* cleanup when the grace period ends.
C13_LeavesByTimeoutErrorOrDestroy ==
  [][ \A r \in Reqs :
        untouched(r)
          => /\ reqs[r].timeout
             /\ r \in active
             /\ ( /\ ~ (step'.op \in {"timeout", "error", "message"} /\ step'.r = r)
                  /\ step'.op # "destroyTimeout" )
                  => stays(r) ]_vars

\* a Request without any datagram is in flight after another Request of a
\* destroyed Session has ended
C13_Witness ==
  /\ destroyed
  /\ step.op \in {"timeout", "error", "message"}
  /\ \E r \in Reqs \ {step.r} : untouched(r) /\ r \in active

\* the valid scrape replies: action code 2, at least 20 bytes, whole records
ScrapeReplies ==
  { m \in Msgs : m.action = 2 /\ m.len >= 20 /\ (m.len - 8) % 12 = 0 }

\* C14 as stated: on a live Session a valid scrape reply with the current
\* transaction id, delivered to a scrape Request that has sent its scrape
\* message, emits exactly (length - 8) / 12 events, all scrape events, the
\* i-th of which carries the i-th requested info-hash and the three values
\* of the i-th record.
C14_ScrapeEventsNameRequested ==
  [][ \A r \in Reqs, m \in ScrapeReplies :
        (reqs[r].scrape /\ reqs[r].opSent /\ ~ destroyed /\ currentDelivery(r, m))
          => /\ Len(emitted') = (m.len - 8) \div 12
             /\ \A i \in 1 .. Len(emitted') :
                  /\ emitted'[i].type = "scrape"
                  /\ emitted'[i].r = r
                  /\ i <= Len(reqs[r].infoHash)
                  /\ emitted'[i].infoHash = toHex(reqs[r].infoHash[i])
                  /\ emitted'[i].complete = readUInt32BE(m, 8 + (i - 1) * 12)
                  /\ emitted'[i].downloaded = readUInt32BE(m, 12 + (i - 1) * 12)
                  /\ emitted'[i].incomplete = readUInt32BE(m, 16 + (i - 1) * 12) ]_vars

resultTypes == {"update", "peer", "scrape"}

\* C15 as stated: update, peer and scrape events are emitted for a Request
\* only once it has been delivered a connect reply and has sent its
\* operation message, and a Request that has sent its operation message
\* does not run the connect step again (it sends nothing more).
C15_PhasesInOrder ==
  [][ /\ \A i \in 1 .. Len(emitted') :
           emitted'[i].type \in resultTypes => reqs[emitted'[i].r].opSent
      /\ \A i \in 1 .. Len(sent') :
           sent'[i].action # 0 => ~ reqs[sent'[i].r].opSent ]_vars

\* the step is the delivery to Request r of connect reply m, which carries
\* the current transaction id of r
connectDelivery(r, m) ==
  /\ step'.op = "message"
  /\ step'.r = r
  /\ m.tx = reqs[r].transactionId
  /\ \E tx \in TxIds : Deliver(r, m, tx)

\* C16: the destroyed flag is never reset; on a destroyed Session the
\* re-announce interval is cleared and stays cleared, and no handler emits
\* any event, whatever arrives; a connect reply of at least 16 bytes with
\* the current id of a Request in flight still makes it send its operation
\* message with the reply's connection id, and the Request stays in flight
\* (stated by contraposition).
C16_DestroyedSilent ==
  [][ /\ destroyed => (destroyed' /\ emitted' = << >>)
      /\ destroyed' => interval' = 0
      /\ \A r \in Reqs, m \in ConnectReplies :
           ( /\ destroyed
             /\ ~ ( /\ Len(sent') = 1
                    /\ sent'[1].r = r
                    /\ sent'[1].action = IF reqs[r].scrape THEN 2 ELSE 1
                    /\ sent'[1].connectionId = slice(m, 8, 16)
                    /\ reqs'[r].socket = "open"
                    /\ reqs'[r].timeout
                    /\ cleanupFns' = cleanupFns ) )
             => ~ connectDelivery(r, m) ]_vars

\* an announce Request of a destroyed Session has sent its operation message
C16_Witness ==
  /\ destroyed
  /\ step.op = "message"
  /\ Len(sent) = 1
  /\ sent[1].action = 1
  /\ destroyTimeout
  /\ emitted = << >>

\* C17 as stated: update and peer events are emitted only for Requests
\* created by announce, scrape events only for Requests created by scrape.
C17_ResultsMatchKind ==
  [][ \A i \in 1 .. Len(emitted') :
        /\ emitted'[i].type \in {"update", "peer"} => ~ reqs[emitted'[i].r].scrape
        /\ emitted'[i].type = "scrape" => reqs[emitted'[i].r].scrape ]_vars

\* C18: if the request timeout of every Request fires unless it is cleared,
\* every Request in flight is eventually cleaned up and out of the active
\* set, whatever datagrams arrive.  The timeout of a Request is armed by
\* its construction and by nothing else, and it stays armed for as long as
\* the socket is open, through the handshake.
C18_RequestTerminates ==
  /\ \A r \in Reqs :
       isOpen(r) ~> (reqs[r].socket = "closed" /\ ~ reqs[r].timeout /\ r \notin active)
  /\ [][ \A r \in Reqs :
           /\ (reqs'[r].timeout /\ ~ reqs[r].timeout)
                => (step'.op \in {"announce", "scrape"} /\ nreq' = r /\ nreq = r - 1)
           /\ (isOpen(r) /\ reqs'[r].socket = "open") => (reqs[r].timeout /\ reqs'[r].timeout)
           /\ reqs[r].socket = "closed" => reqs'[r].socket = "closed" ]_vars

\* the timeout of a Request of a live Session has fired and ended it with
\* its warning while another Request has completed its handshake
C18_Witness ==
  /\ step.op = "timeout"
  /\ ~ destroyed
  /\ emitted # << >>
  /\ reqs[step.r].socket = "closed"
  /\ \E q \in Reqs : isOpen(q) /\ reqs[q].opSent

\* C19: between handlers the active set holds exactly the Requests whose
\* socket is open, each once; the Requests created so far are those with a
\* socket, open or closed; a Request whose socket is not open has no armed
\* timeout and one whose socket is open has; and cleanup is idempotent: a
\* cleanup of a Request that was cleaned up changes nothing, and a second
\* cleanup of a Request in flight changes nothing after the first.
C19_ActiveSetIsOpenSockets ==
  /\ active = { r \in Reqs : isOpen(r) }
  /\ Len(cleanupFns) = Cardinality(active)
  /\ \A r \in Reqs : (r <= nreq) <=> (reqs[r].socket # "none")
  /\ \A r \in Reqs : reqs[r].timeout <=> isOpen(r)
  /\ \A r \in Reqs :
       /\ reqs[r].socket = "closed" => cleanup(Cur, r) = Cur
       /\ isOpen(r) => cleanup(cleanup(Cur, r), r) = cleanup(Cur, r)

\* a handler that ran cleanup twice for its Request (case 1, then onError)
\* has ended it while another Request is in flight
C19_Witness ==
  /\ step.op = "message"
  /\ emitted = << [type |-> "warning", r |-> step.r,
                   text |-> <<"invalid announce message">>] >>
  /\ reqs[step.r].socket = "closed"
  /\ \E q \in Reqs : isOpen(q) /\ reqs[q].opSent

\* C20 as stated: whenever a completion callback of destroy is invoked the
\* active set is empty and no socket is open.
C20_CallbackAfterCleanup ==
  \A i \in 1 .. Len(called) : called[i].open = 0 /\ called[i].active = 0

====
